---- MODULE Spec2Model ----
(***************************************************************************)
(* Report presentation and feedback capture of the React front end:        *)
(*   - FeedbackItem   (components/FeedbackItem.jsx, lines 5-157)           *)
(*   - ReportCard     (components/FeedbackItem.jsx, lines 213-887)         *)
(*   - Reports schema detection (pages/Reports.jsx, lines 16-34)           *)
(* React state is modelled as one variable per useState cell; every event  *)
(* handler is one action up to its first await, and every resolution of an *)
(* awaited call is one action.                                             *)
(***************************************************************************)
EXTENDS Integers, Sequences, FiniteSets, TLC

\* ------------------------------------------------------------------ bounds

\* number of report views rendered at once, each with its own component state
NumSessions == 2
\* cap on the submitFeedback calls one component has in flight at a time
MaxCalls == 2

Sessions == 1..NumSessions

\* ------------------------------------------------- FeedbackItem: constants

\* the `reasons` array
reasons == {"Not accurate", "Not relevant", "Too complex",
            "Didn't answer my question", "Other"}

\* the radios the model clicks: the code compares a reason only with '' and
\* "Other", so one of the four fixed reasons stands for all of them
ReasonChoices == {"Not accurate", "Other"}

\* what the user may have typed into the "Other" textarea
Texts == {"", "more"}

\* the ratings ReportCard's thumbs send
Ratings == {"positive", "negative"}

VARIABLES
  submitted,      \* FeedbackItem: useState(false)
  helpful,        \* FeedbackItem: useState(null); "null", "true" or "false"
  reason,         \* FeedbackItem: useState('')
  otherText,      \* FeedbackItem: useState('')
  loading,        \* FeedbackItem: useState(false)
  inflight,       \* FeedbackItem: submitFeedback calls awaiting their outcome
  feedbackGiven,  \* ReportCard: useState(null)
  rcInflight,     \* ReportCard: submitFeedback calls awaiting their outcome
  data,           \* ReportCard: the `data` prop
  audioUrl,       \* ReportCard: the `audioUrl` prop (TRUE when set)
  rendered,       \* ReportCard: what the last render pass returned
  downloading,    \* ReportCard: useState(false)
  pdfCalls,       \* ReportCard: getReportPdf calls awaiting their outcome
  localStorage,   \* the browser's localStorage: token, email, role
  authCalls,      \* Login / OwnerLogin: login calls awaiting their outcome
  Chat_history,   \* Chat: useState([]), the turns on screen
  Chat_loading,   \* Chat: useState(false)
  Chat_initialLoad, \* Chat: useState(true)
  Chat_pending,   \* Chat: its calls awaiting their outcome
  InputArea_text, \* InputArea: useState('')
  lastOp          \* the event delivered by the last step

fiVars == <<submitted, helpful, reason, otherText, loading, inflight>>
rcVars == <<feedbackGiven, rcInflight>>
viewVars == <<data, audioUrl, rendered>>
dlVars == <<downloading, pdfCalls>>
authVars == <<localStorage, authCalls>>
chatVars == <<Chat_history, Chat_loading, Chat_initialLoad, Chat_pending,
              InputArea_text>>
appVars == <<dlVars, authVars, chatVars>>
vars == <<submitted, helpful, reason, otherText, loading, inflight,
          feedbackGiven, rcInflight, data, audioUrl, rendered,
          downloading, pdfCalls, localStorage, authCalls, Chat_history,
          Chat_loading, Chat_initialLoad, Chat_pending, InputArea_text, lastOp>>

Op(name, s) == [op |-> name, s |-> s]

\* the sequence q without its i-th element
RemoveAt(q, i) == [j \in 1..(Len(q) - 1) |-> IF j < i THEN q[j] ELSE q[j + 1]]

\* ------------------------------------------------------ payloads (JS values)

\* the discriminator values the ReportCard branches compare against, plus one
\* value none of them knows and the absent field
TypeValues == {"undefined", "health_report", "medical_report_analysis",
               "clarification_questions", "other"}
InputTypeValues == {"undefined", "medical_report", "medical_image", "other"}
\* a text field: absent, the empty string (falsy) or a non-empty string
TextValues == {"undefined", "", "s"}

\* A JavaScript value as ReportCard and Reports read it: `js` is its kind, the
\* other fields are the properties of an object (absent ones "undefined" /
\* FALSE; a list-valued property is TRUE when it is present, an array being
\* truthy even when empty).
JsObjects ==
  [js : {"object"}, type : TypeValues, input_type : InputTypeValues,
   summary : TextValues, health_information : BOOLEAN,
   test_analysis : BOOLEAN, observations : BOOLEAN,
   interpretation : BOOLEAN, key_values : BOOLEAN,
   severity : BOOLEAN, risk_assessment : BOOLEAN]

NonObject(k) ==
  [js |-> k, type |-> "undefined", input_type |-> "undefined",
   summary |-> "undefined", health_information |-> FALSE,
   test_analysis |-> FALSE, observations |-> FALSE,
   interpretation |-> FALSE, key_values |-> FALSE,
   severity |-> FALSE, risk_assessment |-> FALSE]

\* what JSON.parse can return: an object, null, a falsy primitive (0, "",
\* false), a truthy primitive or an array (never undefined)
JsonValues == JsObjects \cup {NonObject(k) : k \in {"null", "falsy", "truthy", "array"}}

\* The `data` prop: a string JSON.parse rejects ("text"), a string it decodes
\* to `value` ("json"), or a value that is not a string ("object", the parsed
\* object Reports passes down, or undefined).
Payloads ==
  {[kind |-> "text", value |-> NonObject("undefined")]}
    \cup [kind : {"json"}, value : JsonValues]
    \cup [kind : {"object"}, value : JsObjects \cup {NonObject("undefined")}]

Nullish(v) == v.js \in {"null", "undefined"}
\* !v
Falsy(v) == v.js \in {"null", "undefined", "falsy"}
\* !text
FalsyText(t) == t \in {"undefined", ""}

\* mutant: report.type without the optional chaining
report_type_strict(report) ==
  IF Nullish(report) THEN "TypeError"
  ELSE IF report.js = "object" THEN report.type ELSE "undefined"

\* report?.type and report?.input_type: optional chaining yields undefined on
\* null and undefined, and a primitive or an array has no such property
report_type(report) == IF report.js = "object" THEN report.type ELSE "undefined"
report_input_type(report) == IF report.js = "object" THEN report.input_type ELSE "undefined"
\* report.summary, read only behind `!report ||`
report_summary(report) == IF report.js = "object" THEN report.summary ELSE "undefined"

\* ----------------------------------------------------- ReportCard: rendering

\* mutant: the "Legacy or Error Formats" check placed before the discriminator
\* checks (the order of the older ReportCard, which knew one discriminator)
ReportCard_dispatch_fallbackFirst(report) ==
  LET type == report_type(report)
      input_type == report_input_type(report)
  IN IF type = "clarification_questions" THEN "clarification_questions"
     ELSE IF Falsy(report) \/ FalsyText(report_summary(report)) THEN "fallback"
     ELSE IF type = "health_report" THEN "health_report"
     ELSE IF type = "medical_report_analysis" THEN "medical_report_analysis"
     ELSE IF input_type = "medical_report" THEN "medical_report"
     ELSE IF input_type = "medical_image" THEN "medical_image"
     ELSE "generic"

\* mutant: the clarification_questions check ahead of input_type medical_report
ReportCard_dispatch_clarificationFirst(report) ==
  LET type == report_type(report)
      input_type == report_input_type(report)
  IN IF type = "health_report" THEN "health_report"
     ELSE IF type = "medical_report_analysis" THEN "medical_report_analysis"
     ELSE IF type = "clarification_questions" THEN "clarification_questions"
     ELSE IF input_type = "medical_report" THEN "medical_report"
     ELSE IF input_type = "medical_image" THEN "medical_image"
     ELSE IF Falsy(report) \/ FalsyText(report_summary(report)) THEN "fallback"
     ELSE "generic"

\* The branch of ReportCard's render that returns for a decoded `report`,
\* named after the schema it handles; "TypeError" stands for an exception
\* leaving the render.
ReportCard_dispatch(report) ==
  LET type == report_type(report)
      input_type == report_input_type(report)
  IN IF type = "TypeError" \/ input_type = "TypeError" THEN "TypeError"
     ELSE IF type = "health_report" THEN "health_report"
     ELSE IF type = "medical_report_analysis" THEN "medical_report_analysis"
     ELSE IF input_type = "medical_report" THEN "medical_report"
     ELSE IF type = "clarification_questions" THEN "clarification_questions"
     ELSE IF input_type = "medical_image" THEN "medical_image"
     ELSE IF Falsy(report) \/ FalsyText(report_summary(report)) THEN "fallback"
     ELSE "generic"

\* mutant: JSON.parse(data) without the try/catch
ReportCard_branch_uncaught(d) ==
  IF d.kind = "text" THEN "SyntaxError" ELSE ReportCard_dispatch(d.value)

\* "Safe Parsing", then the dispatch: a string JSON.parse rejects is caught
\* and returned as plain text
ReportCard_branch(d) ==
  IF d.kind = "text" THEN "plain_text" ELSE ReportCard_dispatch(d.value)

\* the schema variant each branch stands for
SchemaVariants == {"HealthReport", "MedicalAnalysis", "LegacyMedicalReport",
                   "ClarificationQuestions", "ImageAnalysis",
                   "GenericAssessment", "PlainText", "Malformed"}

Variant(branch) ==
  CASE branch = "health_report" -> "HealthReport"
    [] branch = "medical_report_analysis" -> "MedicalAnalysis"
    [] branch = "medical_report" -> "LegacyMedicalReport"
    [] branch = "clarification_questions" -> "ClarificationQuestions"
    [] branch = "medical_image" -> "ImageAnalysis"
    [] branch = "generic" -> "GenericAssessment"
    [] branch = "plain_text" -> "PlainText"
    [] branch = "fallback" -> "Malformed"
    [] OTHER -> "none"

\* The markup each branch returns: a bare paragraph of text, the list of
\* clarification questions, or a report card (header, body, disclaimer footer).
ReportCard_layout(branch) ==
  CASE branch \in {"plain_text", "fallback"} -> "raw_text"
    [] branch = "clarification_questions" -> "question_list"
    [] branch \in {"health_report", "medical_report_analysis", "medical_report",
                   "medical_image", "generic"} -> "report_card"
    [] OTHER -> "none"

\* mutant: the clarification branch carries the header with the PDF button too
ReportCard_hasDownload_clarification(branch) ==
  branch \in {"health_report", "medical_report_analysis", "medical_report",
              "clarification_questions", "medical_image", "generic"}

\* the branches whose markup holds the PDF button (onClick={handleDownload})
ReportCard_hasDownload(branch) ==
  branch \in {"health_report", "medical_report_analysis", "medical_report",
              "medical_image", "generic"}

\* the branches whose markup holds the thumbs (onClick={() => handleFeedback(..)})
ReportCard_hasFeedback(branch) == branch = "generic"

\* the branches whose markup holds `{audioUrl && <audio .../>}`
ReportCard_hasAudio(branch) ==
  branch \in {"health_report", "medical_report_analysis", "medical_report",
              "clarification_questions", "medical_image", "generic"}

\* one render pass of ReportCard over the props (data, audioUrl)
ReportCard(d, a) ==
  LET branch == ReportCard_branch(d)
  IN [branch |-> branch,
      layout |-> ReportCard_layout(branch),
      download |-> ReportCard_hasDownload(branch),
      feedback |-> ReportCard_hasFeedback(branch),
      audio |-> a /\ ReportCard_hasAudio(branch)]

\* no render pass yet / the message was filtered out of the Reports page
NotRendered == [branch |-> "none", layout |-> "none", download |-> FALSE,
                feedback |-> FALSE, audio |-> FALSE]
Filtered == [branch |-> "filtered", layout |-> "none", download |-> FALSE,
             feedback |-> FALSE, audio |-> FALSE]

\* ------------------------------------------------ Reports: schema detection

\* the callback of data.filter(..).map(..): TRUE when the message content is
\* kept as a report (JSON.parse or a property read of null throwing is caught
\* and drops the message)
Reports_isReport(d) ==
  /\ d.kind = "json"
  /\ ~Nullish(d.value)
  /\ LET parsed == d.value
         isHealthReport == parsed.type = "health_report" \/ parsed.health_information
         isMedicalAnalysis == parsed.type = "medical_report_analysis" \/ parsed.test_analysis
         isLegacyMedical == parsed.input_type = "medical_report" \/ parsed.interpretation
         isImageAnalysis == parsed.input_type = "medical_image" \/ parsed.observations
         isGeneralReport == ~FalsyText(parsed.summary)
                              /\ (parsed.severity \/ parsed.risk_assessment)
     IN isHealthReport \/ isMedicalAnalysis \/ isLegacyMedical
          \/ isImageAnalysis \/ isGeneralReport

\* ------------------------------------------ ReportCard: content of a report

\* A JavaScript string as a sequence of characters, where the code looks
\* inside it (toLowerCase, includes, the conversion `>` applies)
UpperCase == <<"A", "B", "C", "D", "E", "F", "G", "H", "I", "J", "K", "L", "M",
               "N", "O", "P", "Q", "R", "S", "T", "U", "V", "W", "X", "Y", "Z">>
LowerCase == <<"a", "b", "c", "d", "e", "f", "g", "h", "i", "j", "k", "l", "m",
               "n", "o", "p", "q", "r", "s", "t", "u", "v", "w", "x", "y", "z">>
Digits == <<"0", "1", "2", "3", "4", "5", "6", "7", "8", "9">>

\* String.prototype.toLowerCase
toLowerCase(str) ==
  [i \in 1..Len(str) |->
     IF \E k \in DOMAIN UpperCase : UpperCase[k] = str[i]
       THEN LowerCase[CHOOSE k \in DOMAIN UpperCase : UpperCase[k] = str[i]]
       ELSE str[i]]

\* String.prototype.includes
includes(str, key) ==
  \E i \in 0..(Len(str) - Len(key)) : SubSeq(str, i + 1, i + Len(key)) = key

\* the value of a run of decimal digits
RECURSIVE DigitsValue(_)
DigitsValue(ds) ==
  IF ds = <<>> THEN 0
  ELSE 10 * DigitsValue(SubSeq(ds, 1, Len(ds) - 1))
         + ((CHOOSE k \in DOMAIN Digits : Digits[k] = ds[Len(ds)]) - 1)

\* str is a decimal literal: digits with at most one "."
IsDecimal(str) ==
  /\ \A i \in DOMAIN str : str[i] = "." \/ \E k \in DOMAIN Digits : Digits[k] = str[i]
  /\ Cardinality({i \in DOMAIN str : str[i] = "."}) <= 1
  /\ \E i \in DOMAIN str : str[i] # "."

\* A JavaScript number: a finite value in thousandths, or NaN
Num(n) == [nan |-> FALSE, n |-> n]
NaN == [nan |-> TRUE, n |-> 0]

\* ToNumber of a string, as the relational operators apply it: the empty
\* string is 0, a decimal literal its value (to three places), any other
\* string of the model NaN
StringToNumber(str) ==
  IF str = <<>> THEN Num(0)
  ELSE IF IsDecimal(str)
    THEN LET dot == IF \E i \in DOMAIN str : str[i] = "."
                      THEN CHOOSE i \in DOMAIN str : str[i] = "."
                      ELSE Len(str) + 1
             whole == SubSeq(str, 1, dot - 1)
             frac == SubSeq(SubSeq(str, dot + 1, Len(str)) \o <<"0", "0", "0">>, 1, 3)
         IN Num(1000 * DigitsValue(whole) + DigitsValue(frac))
    ELSE NaN

\* The value of a confidence field: `t` is its typeof (with null apart), `n`
\* a number in thousandths, `s` a string's characters
JsUndefined == [t |-> "undefined", n |-> 0, s |-> <<>>]
JsNull == [t |-> "null", n |-> 0, s |-> <<>>]
JsNumber(n) == [t |-> "number", n |-> n, s |-> <<>>]
JsString(str) == [t |-> "string", n |-> 0, s |-> str]

\* !!v for such a value
Truthy(v) ==
  \/ v.t = "number" /\ v.n # 0
  \/ v.t = "string" /\ v.s # <<>>

\* v > 0
GreaterThanZero(v) ==
  CASE v.t = "number" -> v.n > 0
    [] v.t = "string" -> LET x == StringToNumber(v.s) IN ~x.nan /\ x.n > 0
    [] OTHER -> FALSE                          \* null is 0, undefined NaN

\* Math.round(score * 100) of a number given in thousandths: the nearest
\* integer, a half rounding up
MathRound100(n) == (n + 5) \div 10

\* ConfidenceBar: the percentage it prints and uses as the bar's width
ConfidenceBar(score) ==
  IF score.t = "number" THEN MathRound100(score.n)
  ELSE IF score.t = "string"
    THEN LET s == toLowerCase(score.s)
         IN IF includes(s, <<"h", "i", "g", "h">>) THEN 90
            ELSE IF includes(s, <<"m", "e", "d", "i", "u", "m">>) THEN 60
            ELSE IF includes(s, <<"l", "o", "w">>) THEN 30
            ELSE 0
  ELSE 0

\* the keys of SeverityBadge's `colors`
SeverityLevels == {"LOW", "MODERATE", "HIGH", "EMERGENCY", "UNKNOWN"}

\* SeverityBadge: the level it prints and the colour entry it picks
\* (colors[level] || colors.UNKNOWN)
SeverityBadge(level) ==
  [level |-> level,
   color |-> IF level \in SeverityLevels THEN level ELSE "UNKNOWN"]

\* the default of the generic disclaimer footer
DefaultDisclaimer ==
  "This AI provides preliminary guidance only and is not a substitute for professional medical advice."

\* a list-valued field: absent, null or an array of items
JsList(js, items) == [js |-> js, items |-> items]
NoList == JsList("undefined", <<>>)
\* report.risk_assessment: absent, null or an object
JsRisk(js, severity, score, why) ==
  [js |-> js, severity |-> severity, confidence_score |-> score,
   uncertainty_reason |-> why]
NoRisk == JsRisk("undefined", "undefined", JsUndefined, "undefined")
\* report.recommendations: absent, null or an object
JsRecommendations(js, food, lifestyle) ==
  [js |-> js, food_advice |-> food, lifestyle_advice |-> lifestyle]
NoRecommendations == JsRecommendations("undefined", NoList, NoList)

\* A decoded report with the fields the report branches print; here a text
\* field carries its value ("undefined" when absent).
BlankReport ==
  [js |-> "object", type |-> "undefined", input_type |-> "undefined",
   summary |-> "undefined", health_information |-> "undefined",
   interpretation |-> "undefined", disclaimer |-> "undefined",
   severity |-> "undefined", risk_assessment |-> NoRisk,
   ai_confidence |-> JsUndefined, recommendations |-> NoRecommendations,
   food_recommendations |-> NoList, recommended_actions |-> NoList]

\* the discriminators and summary that select one of the five report
\* branches (or the fallback)
ReportHeads ==
  {[BlankReport EXCEPT !.type = t, !.input_type = i, !.summary = x] :
     t \in {"undefined", "health_report", "medical_report_analysis"},
     i \in {"undefined", "medical_report", "medical_image"},
     x \in TextValues}

\* severity strings: absent, empty, the five keys of `colors`, the "MEDIUM" of
\* the documented schema, and a lower-case spelling
SeverityValues == {"undefined", ""} \cup SeverityLevels \cup {"MEDIUM", "high"}

\* confidence values: absent, null, numbers (in thousandths) inside and
\* outside [0,1], and strings with one keyword, several, or none
ConfidenceValues ==
  {JsUndefined, JsNull}
    \cup {JsNumber(n) : n \in {-500, 0, 4, 500, 946, 950, 1000, 1500, 95000}}
    \cup {JsString(str) : str \in
           {<<>>,
            <<"l", "o", "w">>,
            <<"H", "i", "g", "h", " ", "c", "o", "n", "f", "i", "d", "e", "n", "c", "e">>,
            <<"M", "E", "D", "I", "U", "M">>,
            <<"l", "o", "w", " ", "t", "o", " ", "h", "i", "g", "h">>,
            <<"m", "e", "d", "i", "u", "m", "-", "l", "o", "w">>,
            <<"u", "n", "s", "u", "r", "e">>,
            <<"0", ".", "9">>}}

\* a list field tagged with the name of the field it came from
ListValues(tag) == {NoList, JsList("null", <<>>), JsList("array", <<>>),
                    JsList("array", <<tag>>)}

\* reports that differ in their severity fields
SeverityReports ==
  {[h EXCEPT !.severity = v, !.risk_assessment = ra] :
     h \in ReportHeads, v \in SeverityValues,
     ra \in {NoRisk, JsRisk("null", "undefined", JsUndefined, "undefined")}
              \cup {JsRisk("object", n, JsUndefined, "undefined") : n \in SeverityValues}}

\* reports that differ in their confidence fields
ConfidenceReports ==
  {[h EXCEPT !.ai_confidence = c, !.risk_assessment = ra] :
     h \in ReportHeads, c \in ConfidenceValues,
     ra \in {NoRisk}
              \cup {JsRisk("object", "undefined", score, why) :
                      score \in ConfidenceValues, why \in {"undefined", "s"}}}

\* reports that differ in their text fields
TextReports ==
  {[h EXCEPT !.health_information = hi, !.interpretation = it, !.disclaimer = d] :
     h \in ReportHeads, hi \in TextValues, it \in TextValues, d \in TextValues}

\* reports that differ in their advice lists
AdviceReports ==
  {[h EXCEPT !.recommendations = rec, !.food_recommendations = fr,
             !.recommended_actions = act] :
     h \in ReportHeads,
     rec \in {NoRecommendations, JsRecommendations("null", NoList, NoList)}
               \cup {JsRecommendations("object", food, life) :
                       food \in ListValues("food_advice"),
                       life \in ListValues("lifestyle_advice")},
     fr \in ListValues("food_recommendations"),
     act \in ListValues("recommended_actions")}

\* what React prints for {text}: nothing for undefined
Printed(text) == IF text = "undefined" THEN "" ELSE text

\* the paragraph under the card's title
ReportCard_summaryText(report, branch) ==
  CASE branch = "health_report" ->       \* {report.health_information || report.summary}
         IF FalsyText(report.health_information)
           THEN Printed(report.summary)
           ELSE report.health_information
    [] branch = "medical_report_analysis" -> Printed(report.summary)
    [] branch = "medical_report" -> Printed(report.interpretation)
    [] branch = "generic" -> Printed(report.summary)
    [] OTHER -> ""                       \* medical_image prints no paragraph

\* mutant: the top-level severity read before the nested one
ReportCard_severity_topFirst(report) ==
  LET nested == IF report.risk_assessment.js = "object"
                  THEN report.risk_assessment.severity ELSE "undefined"
  IN IF ~FalsyText(report.severity) THEN report.severity
     ELSE IF ~FalsyText(nested) THEN nested
     ELSE "UNKNOWN"

\* report.risk_assessment?.severity || report.severity || "UNKNOWN"
ReportCard_severity(report) ==
  LET nested == IF report.risk_assessment.js = "object"
                  THEN report.risk_assessment.severity ELSE "undefined"
  IN IF ~FalsyText(nested) THEN nested
     ELSE IF ~FalsyText(report.severity) THEN report.severity
     ELSE "UNKNOWN"

\* report.risk_assessment?.confidence_score || 0.0
ReportCard_confidence(report) ==
  LET score == IF report.risk_assessment.js = "object"
                 THEN report.risk_assessment.confidence_score ELSE JsUndefined
  IN IF Truthy(score) THEN score ELSE JsNumber(0)

\* report.risk_assessment?.uncertainty_reason
ReportCard_uncertainty(report) ==
  IF report.risk_assessment.js = "object"
    THEN report.risk_assessment.uncertainty_reason ELSE "undefined"

\* what stands where a branch puts its confidence bar
NoConfidence == [slot |-> "nothing", percentage |-> 0, reason |-> ""]

ReportCard_confidenceSlot(report, branch) ==
  CASE branch \in {"health_report", "medical_report_analysis"} ->
         \* {report.ai_confidence && <ConfidenceBar score={report.ai_confidence} />}
         IF Truthy(report.ai_confidence)
           THEN [slot |-> "bar", percentage |-> ConfidenceBar(report.ai_confidence),
                 reason |-> ""]
         ELSE IF report.ai_confidence.t = "number"
           THEN [NoConfidence EXCEPT !.slot = "0"]     \* React prints the number 0
         ELSE NoConfidence
    [] branch = "generic" ->
         \* {confidence > 0 && <ConfidenceBar score={confidence} reason={uncertainty} />}
         IF GreaterThanZero(ReportCard_confidence(report))
           THEN [slot |-> "bar",
                 percentage |-> ConfidenceBar(ReportCard_confidence(report)),
                 reason |-> Printed(ReportCard_uncertainty(report))]
           ELSE NoConfidence
    [] OTHER -> NoConfidence

\* the footer paragraph
ReportCard_disclaimer(report, branch) ==
  CASE branch = "generic" ->             \* {report.disclaimer || "This AI ..."}
         IF FalsyText(report.disclaimer) THEN DefaultDisclaimer ELSE report.disclaimer
    [] branch \in {"health_report", "medical_report_analysis", "medical_report",
                   "medical_image"} -> Printed(report.disclaimer)
    [] OTHER -> ""

\* mutant: a chain that takes the first list with items in it
ReportCard_advice_nonEmptyFirst(newer, older) ==
  IF newer.js = "array" /\ newer.items # <<>> THEN newer
  ELSE IF older.js = "array" THEN older
  ELSE JsList("array", <<>>)

\* newer || older || []
ReportCard_advice(newer, older) ==
  IF newer.js = "array" THEN newer
  ELSE IF older.js = "array" THEN older
  ELSE JsList("array", <<>>)

\* report.recommendations || {}
ReportCard_recommendations(report) ==
  IF report.recommendations.js = "object" THEN report.recommendations
  ELSE JsRecommendations("object", NoList, NoList)

ReportCard_food_advice(report) ==
  ReportCard_advice(ReportCard_recommendations(report).food_advice,
                    report.food_recommendations)
ReportCard_lifestyle_advice(report) ==
  ReportCard_advice(ReportCard_recommendations(report).lifestyle_advice,
                    report.recommended_actions)

\* no badge / no advice lists: the branch returned before the normalization
NoBadge == [level |-> "none", color |-> "none"]
NoAdvice == JsList("undefined", <<>>)

\* the content one render pass prints for a decoded report
ReportCard_content(report, branch) ==
  [summaryText |-> ReportCard_summaryText(report, branch),
   severity |-> IF branch = "generic"
                  THEN SeverityBadge(ReportCard_severity(report)) ELSE NoBadge,
   confidence |-> ReportCard_confidenceSlot(report, branch),
   disclaimer |-> ReportCard_disclaimer(report, branch),
   food_advice |-> IF branch = "generic"
                     THEN ReportCard_food_advice(report) ELSE NoAdvice,
   lifestyle_advice |-> IF branch = "generic"
                          THEN ReportCard_lifestyle_advice(report) ELSE NoAdvice]

\* ------------------------------------------------------------ FeedbackItem

\* mutant: the render without the `if (submitted) return` in front
FeedbackItem_view_noThanks(s) ==
  IF helpful[s] = "null" THEN "rating"
  ELSE IF helpful[s] = "false" THEN "reason_form"
  ELSE "blank"

\* which of the component's returns the current state selects
FeedbackItem_view(s) ==
  IF submitted[s] THEN "thanks"                    \* if (submitted) return ...
  ELSE IF helpful[s] = "null" THEN "rating"        \* helpful === null ? (...)
  ELSE IF helpful[s] = "false" THEN "reason_form"  \* : !helpful && (...)
  ELSE "blank"                                     \* !helpful is false: nothing

\* mutant: the reason form's Submit button forgets `loading` (disabled={!reason})
FeedbackItem_submitEnabled_noLoading(s) ==
  \/ /\ FeedbackItem_view(s) = "rating"
     /\ helpful[s] = "true"
     /\ ~loading[s]
  \/ /\ FeedbackItem_view(s) = "reason_form"
     /\ reason[s] # ""

\* a Submit button is on screen and not disabled
FeedbackItem_submitEnabled(s) ==
  \/ /\ FeedbackItem_view(s) = "rating"         \* {helpful === true && <button
     /\ helpful[s] = "true"                     \*    disabled={loading}>}
     /\ ~loading[s]
  \/ /\ FeedbackItem_view(s) = "reason_form"    \* <button disabled={loading || !reason}>
     /\ ~(loading[s] \/ reason[s] = "")

\* the arguments of feedbackService.submitFeedback(helpful, {reason, comment})
FeedbackItem_call(s) ==
  [helpful |-> helpful[s], reason |-> reason[s],
   comment |-> IF reason[s] = "Other" THEN otherText[s] ELSE "null"]

\* mutant: handleFeedback also returns early when "Other" has no free text
FeedbackItem_handleFeedback_textRequired(s) ==
  IF helpful[s] # "true" /\ (reason[s] = "" \/ (reason[s] = "Other" /\ otherText[s] = ""))
    THEN UNCHANGED fiVars
    ELSE /\ loading' = [loading EXCEPT ![s] = TRUE]
         /\ inflight' = [inflight EXCEPT ![s] = Append(@, FeedbackItem_call(s))]
         /\ UNCHANGED <<submitted, helpful, reason, otherText>>

\* handleFeedback up to its await
FeedbackItem_handleFeedback(s) ==
  IF helpful[s] # "true" /\ reason[s] = ""      \* if (!helpful && !reason) return;
    THEN UNCHANGED fiVars
    ELSE /\ loading' = [loading EXCEPT ![s] = TRUE]
         /\ inflight' = [inflight EXCEPT ![s] = Append(@, FeedbackItem_call(s))]
         /\ UNCHANGED <<submitted, helpful, reason, otherText>>

\* the thumbs-up button of the rating view
FeedbackItem_RateHelpful(s) ==
  /\ FeedbackItem_view(s) = "rating"
  /\ helpful' = [helpful EXCEPT ![s] = "true"]
  /\ lastOp' = Op("rate", s)
  /\ UNCHANGED <<submitted, reason, otherText, loading, inflight>>
  /\ UNCHANGED <<rcVars, viewVars, appVars>>

\* the thumbs-down button of the rating view
FeedbackItem_RateNotHelpful(s) ==
  /\ FeedbackItem_view(s) = "rating"
  /\ helpful' = [helpful EXCEPT ![s] = "false"]
  /\ lastOp' = Op("rate", s)
  /\ UNCHANGED <<submitted, reason, otherText, loading, inflight>>
  /\ UNCHANGED <<rcVars, viewVars, appVars>>

\* a radio button of the reason form: onChange={() => setReason(r)}
FeedbackItem_ChooseReason(s, r) ==
  /\ FeedbackItem_view(s) = "reason_form"
  /\ reason' = [reason EXCEPT ![s] = r]
  /\ lastOp' = Op("chooseReason", s)
  /\ UNCHANGED <<submitted, helpful, otherText, loading, inflight>>
  /\ UNCHANGED <<rcVars, viewVars, appVars>>

\* the textarea shown under "Other": onChange={(e) => setOtherText(e.target.value)}
FeedbackItem_TypeOtherText(s, t) ==
  /\ FeedbackItem_view(s) = "reason_form"
  /\ reason[s] = "Other"
  /\ otherText' = [otherText EXCEPT ![s] = t]
  /\ lastOp' = Op("type", s)
  /\ UNCHANGED <<submitted, helpful, reason, loading, inflight>>
  /\ UNCHANGED <<rcVars, viewVars, appVars>>

\* the Cancel button is on screen: it is part of the reason form, nothing
\* disables it
FeedbackItem_cancelEnabled(s) == FeedbackItem_view(s) = "reason_form"

\* mutant: the component state in cells shared by every FeedbackItem
FeedbackItem_Cancel_allSessions(s) ==
  /\ FeedbackItem_cancelEnabled(s)
  /\ helpful' = [t \in Sessions |-> "null"]
  /\ reason' = [t \in Sessions |-> ""]
  /\ otherText' = [t \in Sessions |-> ""]
  /\ lastOp' = Op("cancel", s)
  /\ UNCHANGED <<submitted, loading, inflight>>
  /\ UNCHANGED <<rcVars, viewVars, appVars>>

\* the Cancel button of the reason form
FeedbackItem_Cancel(s) ==
  /\ FeedbackItem_cancelEnabled(s)
  /\ helpful' = [helpful EXCEPT ![s] = "null"]
  /\ reason' = [reason EXCEPT ![s] = ""]
  /\ otherText' = [otherText EXCEPT ![s] = ""]
  /\ lastOp' = Op("cancel", s)
  /\ UNCHANGED <<submitted, loading, inflight>>
  /\ UNCHANGED <<rcVars, viewVars, appVars>>

\* submit(): a click where the Submit button is or would be; it reaches
\* handleFeedback only through a button that is rendered and enabled.
\* (MaxCalls bounds the calls in flight; the code never has more than one.)
FeedbackItem_Submit(s) ==
  /\ Len(inflight[s]) < MaxCalls
  /\ lastOp' = Op("submit", s)
  /\ IF FeedbackItem_submitEnabled(s)
       THEN FeedbackItem_handleFeedback(s)
       ELSE UNCHANGED fiVars
  /\ UNCHANGED <<rcVars, viewVars, appVars>>

\* the awaited submitFeedback resolves: setSubmitted(true), finally setLoading(false)
FeedbackItem_SubmitResolved(s) ==
  /\ \E i \in 1..Len(inflight[s]) :
        inflight' = [inflight EXCEPT ![s] = RemoveAt(@, i)]
  /\ submitted' = [submitted EXCEPT ![s] = TRUE]
  /\ loading' = [loading EXCEPT ![s] = FALSE]
  /\ lastOp' = Op("resolved", s)
  /\ UNCHANGED <<helpful, reason, otherText>>
  /\ UNCHANGED <<rcVars, viewVars, appVars>>

\* the awaited submitFeedback rejects: catch logs, finally setLoading(false)
FeedbackItem_SubmitRejected(s) ==
  /\ \E i \in 1..Len(inflight[s]) :
        inflight' = [inflight EXCEPT ![s] = RemoveAt(@, i)]
  /\ loading' = [loading EXCEPT ![s] = FALSE]
  /\ lastOp' = Op("rejected", s)
  /\ UNCHANGED <<submitted, helpful, reason, otherText>>
  /\ UNCHANGED <<rcVars, viewVars, appVars>>

\* ------------------------------------------------- ReportCard: feedback

\* a thumb is on screen and not disabled: disabled={feedbackGiven}
ReportCard_thumbsEnabled(s) ==
  /\ rendered.feedback
  /\ feedbackGiven[s] = "null"

\* handleFeedback(rating) up to its await; `context` is the report's summary
ReportCard_handleFeedback(s, rating) ==
  IF feedbackGiven[s] # "null"                  \* if (feedbackGiven) return;
    THEN UNCHANGED rcVars
    ELSE /\ feedbackGiven' = [feedbackGiven EXCEPT ![s] = rating]
         /\ rcInflight' = [rcInflight EXCEPT ![s] =
               Append(@, [rating |-> rating, context |-> report_summary(data.value)])]

\* a click where a thumb is or would be
ReportCard_Feedback(s, rating) ==
  /\ Len(rcInflight[s]) < MaxCalls
  /\ lastOp' = Op("feedback", s)
  /\ IF ReportCard_thumbsEnabled(s)
       THEN ReportCard_handleFeedback(s, rating)
       ELSE UNCHANGED rcVars
  /\ UNCHANGED <<fiVars, viewVars, appVars>>

\* the awaited submitFeedback resolves: handleFeedback ends
ReportCard_FeedbackResolved(s) ==
  /\ \E i \in 1..Len(rcInflight[s]) :
        rcInflight' = [rcInflight EXCEPT ![s] = RemoveAt(@, i)]
  /\ lastOp' = Op("feedbackResolved", s)
  /\ UNCHANGED <<feedbackGiven, fiVars, viewVars, appVars>>

\* the awaited submitFeedback rejects: catch logs "Feedback error"
ReportCard_FeedbackRejected(s) ==
  /\ \E i \in 1..Len(rcInflight[s]) :
        rcInflight' = [rcInflight EXCEPT ![s] = RemoveAt(@, i)]
  /\ lastOp' = Op("feedbackRejected", s)
  /\ UNCHANGED <<feedbackGiven, fiVars, viewVars, appVars>>

\* ------------------------------------------------------- render passes

\* ReportCard renders its props
ReportCard_Render ==
  /\ rendered = NotRendered
  /\ rendered' = ReportCard(data, audioUrl)
  /\ lastOp' = Op("render", 0)
  /\ UNCHANGED <<data, audioUrl, fiVars, rcVars, appVars>>

\* Reports.fetchHistory over one assistant message: a message the schema
\* detection keeps is handed to ReportCard as the parsed object, any other is
\* filtered out
Reports_fetchHistory ==
  /\ rendered = NotRendered
  /\ data.kind \in {"text", "json"}
  /\ lastOp' = Op("fetchHistory", 0)
  /\ IF Reports_isReport(data)
       THEN /\ data' = [kind |-> "object", value |-> data.value]
            /\ rendered' = ReportCard(data', FALSE)  \* <ReportCard data={report} />
            /\ audioUrl' = FALSE
       ELSE /\ rendered' = Filtered
            /\ UNCHANGED <<data, audioUrl>>
  /\ UNCHANGED <<fiVars, rcVars, appVars>>

\* ReportCard renders a decoded report: the branch, its actions and its content
ReportCard_RenderReport ==
  /\ rendered = NotRendered
  /\ rendered' = ReportCard(data, audioUrl)
                   @@ ReportCard_content(data.value, ReportCard_branch(data))
  /\ lastOp' = Op("render", 0)
  /\ UNCHANGED <<data, audioUrl, fiVars, rcVars, appVars>>

\* --------------------------------------------------- ReportCard: PDF export

\* the PDF button is on screen and not disabled: disabled={downloading}
ReportCard_downloadEnabled_always(s) == rendered.download

ReportCard_downloadEnabled(s) ==
  /\ rendered.download
  /\ ~downloading[s]

\* handleDownload up to its await. setDownloading(true), the missing e-mail's
\* alert and return, and finally's setDownloading(false) run in one event, so
\* that attempt leaves `downloading` false.
ReportCard_handleDownload(s) ==
  IF localStorage.email = "null"                \* if (!email) { alert(..); return; }
    THEN UNCHANGED dlVars
    ELSE /\ downloading' = [downloading EXCEPT ![s] = TRUE]
         /\ pdfCalls' = [pdfCalls EXCEPT ![s] =
               Append(@, [email |-> localStorage.email])]

\* a click where the PDF button is
ReportCard_Download(s) ==
  /\ Len(pdfCalls[s]) < MaxCalls
  /\ lastOp' = Op("download", s)
  /\ IF ReportCard_downloadEnabled(s)
       THEN ReportCard_handleDownload(s)
       ELSE UNCHANGED dlVars
  /\ UNCHANGED <<fiVars, rcVars, viewVars, authVars, chatVars>>

\* the awaited getReportPdf resolves: the file is saved, finally setDownloading(false)
ReportCard_PdfResolved(s) ==
  /\ \E i \in 1..Len(pdfCalls[s]) :
        pdfCalls' = [pdfCalls EXCEPT ![s] = RemoveAt(@, i)]
  /\ downloading' = [downloading EXCEPT ![s] = FALSE]
  /\ lastOp' = Op("pdfResolved", s)
  /\ UNCHANGED <<fiVars, rcVars, viewVars, authVars, chatVars>>

\* the awaited getReportPdf rejects: catch alerts, finally setDownloading(false)
ReportCard_PdfRejected(s) ==
  /\ \E i \in 1..Len(pdfCalls[s]) :
        pdfCalls' = [pdfCalls EXCEPT ![s] = RemoveAt(@, i)]
  /\ downloading' = [downloading EXCEPT ![s] = FALSE]
  /\ lastOp' = Op("pdfRejected", s)
  /\ UNCHANGED <<fiVars, rcVars, viewVars, authVars, chatVars>>

\* ------------------------------------------- localStorage, login and logout

\* localStorage with no item stored (getItem returns null)
NoStorage == [token |-> "null", email |-> "null", role |-> "null"]

\* the forms that call authService.login; the access token of a response is
\* named after the form whose call it answers
LoginForms == {"Login", "OwnerLogin"}

\* localStorage after an ordinary login
LoggedIn == [token |-> "Login", email |-> "email", role |-> "null"]

\* OwnerRoute lets its children render
OwnerRoute(storage) ==
  ~(storage.token = "null" \/ storage.role # "OWNER")

\* Login.handleSubmit / OwnerLogin.handleLogin up to the await; the submit
\* button is disabled={loading} while the form's call is awaited
Login_submit(form) ==
  /\ form \notin authCalls
  /\ authCalls' = authCalls \cup {form}
  /\ lastOp' = Op("login", 0)
  /\ UNCHANGED <<localStorage, fiVars, rcVars, viewVars, dlVars, chatVars>>

\* Login.handleSubmit: the awaited login (or signup) resolves
Login_Resolved ==
  /\ "Login" \in authCalls
  /\ authCalls' = authCalls \ {"Login"}
  /\ localStorage' = [localStorage EXCEPT !.token = "Login", !.email = "email"]
  /\ lastOp' = Op("loginResolved", 0)
  /\ UNCHANGED <<fiVars, rcVars, viewVars, dlVars, chatVars>>

\* OwnerLogin.handleLogin: the awaited login resolves
OwnerLogin_Resolved ==
  /\ "OwnerLogin" \in authCalls
  /\ authCalls' = authCalls \ {"OwnerLogin"}
  /\ localStorage' = [token |-> "OwnerLogin", email |-> "email", role |-> "OWNER"]
  /\ lastOp' = Op("ownerLoginResolved", 0)
  /\ UNCHANGED <<fiVars, rcVars, viewVars, dlVars, chatVars>>

\* either form: the awaited login rejects, setError(..)
Login_Rejected(form) ==
  /\ form \in authCalls
  /\ authCalls' = authCalls \ {form}
  /\ lastOp' = Op("loginRejected", 0)
  /\ UNCHANGED <<localStorage, fiVars, rcVars, viewVars, dlVars, chatVars>>

\* Header.handleLogout -> authService.logout(); the menu shows it when an
\* e-mail is stored (isLoggedIn)
Header_handleLogout ==
  /\ localStorage.email # "null"
  /\ localStorage' = [localStorage EXCEPT !.token = "null", !.email = "null"]
  /\ lastOp' = Op("logout", 0)
  /\ UNCHANGED <<authCalls, fiVars, rcVars, viewVars, dlVars, chatVars>>

\* OwnerDashboard.handleLogout: localStorage.clear(); the dashboard renders
\* behind OwnerRoute
OwnerDashboard_handleLogout ==
  /\ OwnerRoute(localStorage)
  /\ localStorage' = NoStorage
  /\ lastOp' = Op("ownerLogout", 0)
  /\ UNCHANGED <<authCalls, fiVars, rcVars, viewVars, dlVars, chatVars>>

\* ---------------------------------------------------------------- Chat

\* cap on the turns a conversation of the model collects by sending
MaxTurns == 3

\* a turn of the history: msg.role and msg.content (for an assistant turn the
\* severity of the report its content encodes)
UserTurn(content) == [role |-> "user", content |-> content]
AssistantTurn(severity) == [role |-> "assistant", content |-> severity]

\* the severities of the reports a query may be answered with
ResponseSeverities == {"LOW", "EMERGENCY"}

\* what dashboardService.getHistory may resolve to: the stored conversation
\* as the server read it
ServerHistories == {<<>>, <<UserTurn("hi"), AssistantTurn("LOW")>>}

\* what the textarea may hold, and InputArea's attachments (audioBlob stands
\* for imageFile too, which the code treats alike)
InputTexts == {"", " ", "hi"}
NoInput == [text |-> "", audioBlob |-> FALSE]

\* String.prototype.trim
trim(text) == IF text = " " THEN "" ELSE text

NoPending == [getHistory |-> FALSE, query |-> 0, clear |-> 0]

\* InputArea.handleSubmit goes on to onSend:
\* if ((!text.trim() && !audioBlob && !imageFile) || isLoading) return;
InputArea_accepts(input, isLoading) ==
  ~((trim(input.text) = "" /\ ~input.audioBlob) \/ isLoading)

\* the conversation shows `turn`: the turns are drawn once the initial load
\* is over ({initialLoad ? spinner : history.map(..)})
Chat_displays(turn) ==
  /\ ~Chat_initialLoad
  /\ \E i \in 1..Len(Chat_history) : Chat_history[i] = turn

\* Chat.handleSend up to its await: the optimistic user turn, setLoading(true)
Chat_handleSend(input) ==
  LET content == IF input.text # "" THEN input.text ELSE "Voice Message"
  IN /\ Chat_history' = Append(Chat_history, UserTurn(content))
     /\ Chat_loading' = TRUE
     /\ Chat_pending' = [Chat_pending EXCEPT !.query = @ + 1]
     /\ UNCHANGED Chat_initialLoad

\* the textarea's onChange
InputArea_setText(t) ==
  /\ InputArea_text' = [InputArea_text EXCEPT !.text = t]
  /\ lastOp' = Op("setText", 0)
  /\ UNCHANGED <<Chat_history, Chat_loading, Chat_initialLoad, Chat_pending>>
  /\ UNCHANGED <<fiVars, rcVars, viewVars, dlVars, authVars>>

\* a voice note is recorded (mediaRecorder.onstop) or removed
InputArea_setAudioBlob(b) ==
  /\ InputArea_text' = [InputArea_text EXCEPT !.audioBlob = b]
  /\ lastOp' = Op("setAudioBlob", 0)
  /\ UNCHANGED <<Chat_history, Chat_loading, Chat_initialLoad, Chat_pending>>
  /\ UNCHANGED <<fiVars, rcVars, viewVars, dlVars, authVars>>

\* InputArea.handleSubmit (the form's submit, or Enter in the textarea)
InputArea_handleSubmit ==
  /\ Len(Chat_history) < MaxTurns
  /\ lastOp' = Op("send", 0)
  /\ IF InputArea_accepts(InputArea_text, Chat_loading)
       THEN /\ Chat_handleSend(InputArea_text)
            /\ InputArea_text' = NoInput
       ELSE UNCHANGED chatVars
  /\ UNCHANGED <<fiVars, rcVars, viewVars, dlVars, authVars>>

\* Chat.handleSend: the awaited query resolves with a report
Chat_QueryResolved(severity) ==
  /\ Chat_pending.query > 0
  /\ Chat_pending' = [Chat_pending EXCEPT !.query = @ - 1]
  /\ Chat_history' = Append(Chat_history, AssistantTurn(severity))
  /\ Chat_loading' = FALSE
  /\ lastOp' = Op("queryResolved", 0)
  /\ UNCHANGED <<Chat_initialLoad, InputArea_text>>
  /\ UNCHANGED <<fiVars, rcVars, viewVars, dlVars, authVars>>

\* Chat.handleSend: the awaited query rejects; catch appends the error report
Chat_QueryRejected ==
  /\ Chat_pending.query > 0
  /\ Chat_pending' = [Chat_pending EXCEPT !.query = @ - 1]
  /\ Chat_history' = Append(Chat_history, AssistantTurn("UNKNOWN"))
  /\ Chat_loading' = FALSE
  /\ lastOp' = Op("queryRejected", 0)
  /\ UNCHANGED <<Chat_initialLoad, InputArea_text>>
  /\ UNCHANGED <<fiVars, rcVars, viewVars, dlVars, authVars>>

\* Chat.fetchHistory (called once by the mount effect): getHistory resolves
Chat_fetchHistoryResolved(stored) ==
  /\ Chat_pending.getHistory
  /\ Chat_pending' = [Chat_pending EXCEPT !.getHistory = FALSE]
  /\ Chat_history' = stored                     \* setHistory(data)
  /\ Chat_initialLoad' = FALSE
  /\ lastOp' = Op("historyResolved", 0)
  /\ UNCHANGED <<Chat_loading, InputArea_text>>
  /\ UNCHANGED <<fiVars, rcVars, viewVars, dlVars, authVars>>

\* Chat.fetchHistory: getHistory rejects
Chat_fetchHistoryRejected ==
  /\ Chat_pending.getHistory
  /\ Chat_pending' = [Chat_pending EXCEPT !.getHistory = FALSE]
  /\ Chat_initialLoad' = FALSE
  /\ lastOp' = Op("historyRejected", 0)
  /\ UNCHANGED <<Chat_history, Chat_loading, InputArea_text>>
  /\ UNCHANGED <<fiVars, rcVars, viewVars, dlVars, authVars>>

\* Chat.handleClearChat up to its await; the button shows with
\* history.length > 0, and a declined window.confirm returns
Chat_handleClearChat(confirmed) ==
  /\ Chat_history # <<>>
  /\ Chat_pending.clear < MaxCalls
  /\ Chat_pending' = IF confirmed THEN [Chat_pending EXCEPT !.clear = @ + 1]
                     ELSE Chat_pending
  /\ lastOp' = Op("clear", 0)
  /\ UNCHANGED <<Chat_history, Chat_loading, Chat_initialLoad, InputArea_text>>
  /\ UNCHANGED <<fiVars, rcVars, viewVars, dlVars, authVars>>

\* Chat.handleClearChat: clearHistory resolves, setHistory([])
Chat_ClearResolved ==
  /\ Chat_pending.clear > 0
  /\ Chat_pending' = [Chat_pending EXCEPT !.clear = @ - 1]
  /\ Chat_history' = <<>>
  /\ lastOp' = Op("clearResolved", 0)
  /\ UNCHANGED <<Chat_loading, Chat_initialLoad, InputArea_text>>
  /\ UNCHANGED <<fiVars, rcVars, viewVars, dlVars, authVars>>

\* Chat.handleClearChat: clearHistory rejects, alert(..)
Chat_ClearRejected ==
  /\ Chat_pending.clear > 0
  /\ Chat_pending' = [Chat_pending EXCEPT !.clear = @ - 1]
  /\ lastOp' = Op("clearRejected", 0)
  /\ UNCHANGED <<Chat_history, Chat_loading, Chat_initialLoad, InputArea_text>>
  /\ UNCHANGED <<fiVars, rcVars, viewVars, dlVars, authVars>>

\* ------------------------------------------------------- specifications

InitSessions ==
  /\ submitted = [s \in Sessions |-> FALSE]
  /\ helpful = [s \in Sessions |-> "null"]
  /\ reason = [s \in Sessions |-> ""]
  /\ otherText = [s \in Sessions |-> ""]
  /\ loading = [s \in Sessions |-> FALSE]
  /\ inflight = [s \in Sessions |-> <<>>]
  /\ feedbackGiven = [s \in Sessions |-> "null"]
  /\ rcInflight = [s \in Sessions |-> <<>>]
  /\ lastOp = Op("none", 0)

\* no export, login or chat activity: a logged-in user, the chat page loaded
InitIdle ==
  /\ downloading = [s \in Sessions |-> FALSE]
  /\ pdfCalls = [s \in Sessions |-> <<>>]
  /\ localStorage = LoggedIn
  /\ authCalls = {}
  /\ Chat_history = <<>>
  /\ Chat_loading = FALSE
  /\ Chat_initialLoad = FALSE
  /\ Chat_pending = NoPending
  /\ InputArea_text = NoInput

\* the report the feedback sessions belong to: a generic assessment (the error
\* report Chat.handleSend builds has this shape) or a health_report
SessionReports ==
  {[kind |-> "json", value |-> [NonObject("object") EXCEPT
       !.summary = "s", !.severity = TRUE]],
   [kind |-> "json", value |-> [NonObject("object") EXCEPT
       !.type = "health_report", !.summary = "s", !.health_information = TRUE]]}

\* feedback capture on mounted report views
Init ==
  /\ InitSessions
  /\ InitIdle
  /\ data \in SessionReports
  /\ audioUrl = FALSE
  /\ rendered = ReportCard(data, audioUrl)

Next ==
  \E s \in Sessions :
    \/ FeedbackItem_RateHelpful(s)
    \/ FeedbackItem_RateNotHelpful(s)
    \/ \E r \in ReasonChoices : FeedbackItem_ChooseReason(s, r)
    \/ \E t \in Texts : FeedbackItem_TypeOtherText(s, t)
    \/ FeedbackItem_Cancel(s)
    \/ FeedbackItem_Submit(s)
    \/ FeedbackItem_SubmitResolved(s)
    \/ FeedbackItem_SubmitRejected(s)
    \/ \E rating \in Ratings : ReportCard_Feedback(s, rating)
    \/ ReportCard_FeedbackResolved(s)
    \/ ReportCard_FeedbackRejected(s)

Spec == Init /\ [][Next]_vars

\* classification and dispatch of every payload
InitRender ==
  /\ InitSessions
  /\ InitIdle
  /\ data \in Payloads
  /\ audioUrl \in BOOLEAN
  /\ rendered = NotRendered

NextRender ==
  \/ ReportCard_Render
  \/ Reports_fetchHistory

SpecRender == InitRender /\ [][NextRender]_vars

\* the content of every report
InitNormalize ==
  /\ InitSessions
  /\ InitIdle
  /\ data \in [kind : {"json"},
               value : SeverityReports \cup ConfidenceReports
                         \cup TextReports \cup AdviceReports]
  /\ audioUrl = FALSE
  /\ rendered = NotRendered

NextNormalize == ReportCard_RenderReport

SpecNormalize == InitNormalize /\ [][NextNormalize]_vars

\* logins, logouts and PDF exports on mounted report views
InitAccount ==
  /\ InitSessions
  /\ data \in SessionReports
  /\ audioUrl = FALSE
  /\ rendered = ReportCard(data, audioUrl)
  /\ downloading = [s \in Sessions |-> FALSE]
  /\ pdfCalls = [s \in Sessions |-> <<>>]
  /\ localStorage = NoStorage
  /\ authCalls = {}
  /\ Chat_history = <<>>
  /\ Chat_loading = FALSE
  /\ Chat_initialLoad = FALSE
  /\ Chat_pending = NoPending
  /\ InputArea_text = NoInput

NextAccount ==
  \/ \E form \in LoginForms : Login_submit(form)
  \/ Login_Resolved
  \/ OwnerLogin_Resolved
  \/ \E form \in LoginForms : Login_Rejected(form)
  \/ Header_handleLogout
  \/ OwnerDashboard_handleLogout
  \/ \E s \in Sessions :
       \/ ReportCard_Download(s)
       \/ ReportCard_PdfResolved(s)
       \/ ReportCard_PdfRejected(s)

SpecAccount == InitAccount /\ [][NextAccount]_vars

\* the chat page from its mount: getHistory is awaited
InitChat ==
  /\ InitSessions
  /\ data \in SessionReports
  /\ audioUrl = FALSE
  /\ rendered = ReportCard(data, audioUrl)
  /\ downloading = [s \in Sessions |-> FALSE]
  /\ pdfCalls = [s \in Sessions |-> <<>>]
  /\ localStorage = LoggedIn
  /\ authCalls = {}
  /\ Chat_history = <<>>
  /\ Chat_loading = FALSE
  /\ Chat_initialLoad = TRUE
  /\ Chat_pending = [NoPending EXCEPT !.getHistory = TRUE]
  /\ InputArea_text = NoInput

NextChat ==
  \/ \E t \in InputTexts : InputArea_setText(t)
  \/ \E b \in BOOLEAN : InputArea_setAudioBlob(b)
  \/ InputArea_handleSubmit
  \/ \E severity \in ResponseSeverities : Chat_QueryResolved(severity)
  \/ Chat_QueryRejected
  \/ \E stored \in ServerHistories : Chat_fetchHistoryResolved(stored)
  \/ Chat_fetchHistoryRejected
  \/ \E confirmed \in BOOLEAN : Chat_handleClearChat(confirmed)
  \/ Chat_ClearResolved
  \/ Chat_ClearRejected

SpecChat == InitChat /\ [][NextChat]_vars

\* ------------------------------------------------------------ properties

\* this step issues a submitFeedback call from FeedbackItem s / ReportCard s
FeedbackItem_issues(s) == Len(inflight'[s]) > Len(inflight[s])
ReportCard_issues(s) == Len(rcInflight'[s]) > Len(rcInflight[s])

\* this step leaves every state cell of FeedbackItem s as it was
FeedbackItem_unchanged(s) ==
  /\ submitted'[s] = submitted[s]
  /\ helpful'[s] = helpful[s]
  /\ reason'[s] = reason[s]
  /\ otherText'[s] = otherText[s]
  /\ loading'[s] = loading[s]
  /\ inflight'[s] = inflight[s]

\* the states of the FeedbackSession state machine, read off the component state
AwaitingRating(s) == ~submitted[s] /\ helpful[s] = "null"
AwaitingReason(s) == ~submitted[s] /\ helpful[s] = "false" /\ reason[s] = ""
AwaitingSubmit(s) ==
  ~submitted[s] /\ (helpful[s] = "true" \/ (helpful[s] = "false" /\ reason[s] # ""))

\* ReportCard returned markup for the payload (SpecRender)
Shown == rendered \notin {NotRendered, Filtered}

\* C1: a submit() that arrives while a submission is in flight, or after one
\* succeeded, issues no second submitFeedback call: a session never has two
\* calls in flight, no call is issued while one is in flight or after the
\* session is submitted, and once submitted no step changes the session
\* (FeedbackItem and ReportCard's thumbs alike).
C1_SubmitIssuesOneCall ==
  /\ [](\A s \in Sessions : Len(inflight[s]) <= 1 /\ Len(rcInflight[s]) <= 1)
  /\ [][\A s \in Sessions :
          /\ (loading[s] \/ submitted[s]) => ~FeedbackItem_issues(s)
          /\ submitted[s] => FeedbackItem_unchanged(s)
          /\ feedbackGiven[s] # "null" =>
                ~ReportCard_issues(s) /\ feedbackGiven'[s] = feedbackGiven[s]]_vars

\* C1 witness: submit() was called on a session that is already submitted
C1_Witness ==
  \E s \in Sessions :
    submitted[s] /\ lastOp = Op("submit", s) /\ inflight[s] = <<>>

\* C2: a failed submitFeedback call leaves the session unsubmitted, with
\* rating and reason as they were and submit() still enabled where it was
\* awaiting submit; the session becomes submitted only in the step in which
\* its call resolves successfully (FeedbackItem's `submitted`, ReportCard's
\* `feedbackGiven`).
C2_FailedSubmitCanRetry ==
  [][\A s \in Sessions :
       /\ lastOp' = Op("rejected", s) =>
            /\ ~submitted'[s]
            /\ helpful'[s] = helpful[s] /\ reason'[s] = reason[s]
            /\ AwaitingSubmit(s) => FeedbackItem_submitEnabled(s)'
       /\ (submitted'[s] /\ ~submitted[s]) => lastOp' = Op("resolved", s)
       /\ lastOp' = Op("feedbackRejected", s) /\ rcInflight'[s] = <<>> =>
            ReportCard_thumbsEnabled(s)'
       /\ (feedbackGiven'[s] # "null" /\ feedbackGiven[s] = "null") =>
            lastOp' = Op("feedbackResolved", s)]_vars

\* C3: after rate(Helpful) an unsubmitted session with no call in flight has
\* submit() enabled (no reason needed), so it can reach Submitted with rating
\* Helpful and is never stuck.
C3_HelpfulCanSubmit ==
  \A s \in Sessions :
    (helpful[s] = "true" /\ ~submitted[s] /\ ~loading[s]) => FeedbackItem_submitEnabled(s)

C5_FullReportActions ==
  (Shown /\ Variant(rendered.branch) \in
      {"HealthReport", "MedicalAnalysis", "LegacyMedicalReport",
       "ImageAnalysis", "GenericAssessment"})
    => (rendered.layout = "report_card" /\ rendered.download /\ rendered.feedback)

\* C6: every payload rendered as ClarificationQuestions gets the question
\* list with neither Download nor Feedback, and a decoded payload with
\* type "clarification_questions" and no input_type is rendered so.
C6_ClarificationNoActions ==
  /\ (Shown /\ Variant(rendered.branch) = "ClarificationQuestions") =>
        (rendered.layout = "question_list" /\ ~rendered.download /\ ~rendered.feedback)
  /\ (Shown /\ data.kind # "text" /\ data.value.js = "object"
        /\ data.value.type = "clarification_questions"
        /\ data.value.input_type = "undefined") =>
        Variant(rendered.branch) = "ClarificationQuestions"

\* C6 witness: a clarification payload (with stale summary and severity) rendered
C6_Witness ==
  /\ Shown /\ data.kind = "json"
  /\ data.value.type = "clarification_questions"
  /\ data.value.input_type = "undefined"
  /\ data.value.summary = "s" /\ data.value.severity
  /\ rendered.branch = "clarification_questions" /\ audioUrl

\* C7: a string that fails decoding is PlainText; a decoded payload with no
\* recognised discriminator and no summary is Malformed; both get the raw-text
\* markup with no Download, Feedback or audio player, and no exception leaves
\* the render.
C7_RawTextFallback ==
  Shown =>
    /\ data.kind = "text" => Variant(rendered.branch) = "PlainText"
    /\ (data.kind # "text"
          /\ report_type(data.value) \in {"undefined", "other"}
          /\ report_input_type(data.value) \in {"undefined", "other"}
          /\ FalsyText(report_summary(data.value))) =>
         Variant(rendered.branch) = "Malformed"
    /\ Variant(rendered.branch) \in {"PlainText", "Malformed"} =>
         /\ rendered.layout = "raw_text"
         /\ ~rendered.download /\ ~rendered.feedback /\ ~rendered.audio
    /\ rendered.branch \notin {"SyntaxError", "TypeError"}

\* C7 witness: an undecodable string rendered while an audio URL is attached
C7_Witness ==
  Shown /\ data.kind = "text" /\ audioUrl /\ rendered.branch = "plain_text"

\* C8: every payload is rendered as exactly one schema variant; no payload
\* makes the classification throw.
C8_ClassificationTotal ==
  Shown => Variant(rendered.branch) \in SchemaVariants

\* C8 witness: a string decoding to null was classified
C8_Witness ==
  Shown /\ data.kind = "json" /\ data.value.js = "null"
    /\ Variant(rendered.branch) = "Malformed"

\* the generations a decoded payload's discriminator fields name
NamedGenerations(report) ==
  (IF report_type(report) \in {"health_report", "medical_report_analysis",
                               "clarification_questions"}
     THEN {report_type(report)} ELSE {})
  \cup (IF report_input_type(report) \in {"medical_report", "medical_image"}
          THEN {report_input_type(report)} ELSE {})

\* C9: a decoded payload whose discriminator names a generation is rendered
\* as that generation whatever structural fields it carries (with type and
\* input_type naming two generations, as one of the two).
C9_DiscriminatorWins ==
  (Shown /\ data.kind # "text" /\ NamedGenerations(data.value) # {}) =>
     rendered.branch \in NamedGenerations(data.value)

\* C9 witness: a health_report without summary that carries test analysis,
\* observations and interpretation
C9_Witness ==
  /\ Shown /\ data.kind # "text"
  /\ data.value.type = "health_report" /\ data.value.input_type = "undefined"
  /\ data.value.test_analysis /\ data.value.observations
  /\ data.value.interpretation /\ data.value.summary = "undefined"
  /\ rendered.branch = "health_report"

\* C10: a decoded object with no discriminator field is rendered as the first
\* structural match: test analysis => MedicalAnalysis; observations =>
\* ImageAnalysis; interpretation with lab markers => LegacyMedicalReport;
\* summary with severity or risk assessment => GenericAssessment.
C10_StructuralOrder ==
  (Shown /\ data.kind # "text" /\ data.value.js = "object"
     /\ data.value.type = "undefined" /\ data.value.input_type = "undefined") =>
    LET r == data.value
        v == Variant(rendered.branch)
    IN IF r.test_analysis THEN v = "MedicalAnalysis"
       ELSE IF r.observations THEN v = "ImageAnalysis"
       ELSE IF r.interpretation /\ r.key_values THEN v = "LegacyMedicalReport"
       ELSE IF ~FalsyText(r.summary) /\ (r.severity \/ r.risk_assessment)
         THEN v = "GenericAssessment"
       ELSE TRUE

\* ReportCard printed a report's content (SpecNormalize)
Normalized == Shown /\ "summaryText" \in DOMAIN rendered

\* a severity string is given: the field exists and is not empty
SeverityGiven(v) == v \notin {"undefined", ""}

\* C11: the severity level a rendered report shows is one of the five
\* canonical levels (LOW, MODERATE, HIGH, EMERGENCY, UNKNOWN); no other
\* string supplied upstream appears as the level.
C11_SeverityCanonical ==
  (Normalized /\ rendered.severity # NoBadge) =>
     rendered.severity.level \in SeverityLevels

\* C12: the severity shown is the nested risk_assessment severity when one is
\* given, otherwise the top-level severity when one is given, otherwise
\* UNKNOWN; a report with severity "HIGH" and no risk_assessment shows HIGH.
C12_SeverityPriority ==
  (Normalized /\ rendered.branch = "generic") =>
     LET r == data.value
         nested == r.risk_assessment.severity
     IN /\ (r.risk_assessment.js = "object" /\ SeverityGiven(nested)) =>
              rendered.severity.level = nested
        /\ (~(r.risk_assessment.js = "object" /\ SeverityGiven(nested))
              /\ SeverityGiven(r.severity)) =>
              rendered.severity.level = r.severity
        /\ (~(r.risk_assessment.js = "object" /\ SeverityGiven(nested))
              /\ ~SeverityGiven(r.severity)) =>
              rendered.severity.level = "UNKNOWN"
        /\ (r.risk_assessment.js = "undefined" /\ r.severity = "HIGH") =>
              rendered.severity = [level |-> "HIGH", color |-> "HIGH"]

\* C12 witness: a generic report carrying a nested and a different top-level
\* severity shows the nested one
C12_Witness ==
  /\ Normalized /\ rendered.branch = "generic"
  /\ data.value.risk_assessment.js = "object"
  /\ data.value.risk_assessment.severity = "LOW"
  /\ data.value.severity = "HIGH"
  /\ rendered.severity.level = "LOW"

\* the confidence field the branch reads, if it shows confidence at all
ConfidenceField(report, branch) ==
  CASE branch \in {"health_report", "medical_report_analysis"} -> report.ai_confidence
    [] branch = "generic" ->
         (IF report.risk_assessment.js = "object"
            THEN report.risk_assessment.confidence_score ELSE JsUndefined)
    [] OTHER -> JsUndefined

ShowsConfidence(branch) ==
  branch \in {"health_report", "medical_report_analysis", "generic"}

\* C13: whatever the confidence input, the percentage a rendered report
\* shows lies in [0,100].
C13_ConfidenceClamped ==
  Normalized =>
    (rendered.confidence.percentage >= 0 /\ rendered.confidence.percentage <= 100)

\* a string names one of the categories high, medium, low
HasKeyword(str) ==
  \E key \in {<<"h", "i", "g", "h">>, <<"m", "e", "d", "i", "u", "m">>,
              <<"l", "o", "w">>} : includes(toLowerCase(str), key)

\* C14: a confidence bar is shown only when the confidence field is given
\* and recognised (a number, or a string naming high, medium or low): with
\* the field absent or a string naming none of them there is no bar.
C14_BarOnlyWhenRecognised ==
  (Normalized /\ rendered.confidence.slot = "bar") =>
     LET c == ConfidenceField(data.value, rendered.branch)
     IN c.t = "number" \/ (c.t = "string" /\ HasKeyword(c.s))

\* the reference rule of confidence coercion
ReferencePercentage(c) ==
  IF c.t = "number" THEN (c.n + 5) \div 10
  ELSE IF c.t = "string" THEN
    (IF includes(toLowerCase(c.s), <<"h", "i", "g", "h">>) THEN 90
     ELSE IF includes(toLowerCase(c.s), <<"m", "e", "d", "i", "u", "m">>) THEN 60
     ELSE IF includes(toLowerCase(c.s), <<"l", "o", "w">>) THEN 30
     ELSE 0)
  ELSE 0

\* C15: in every branch that shows confidence, for a confidence field that
\* is a number in [0,1], a string, or absent, the percentage shown (0 when
\* no bar is shown) is the one the reference rule gives, whether the field is
\* ai_confidence or risk_assessment.confidence_score.
C15_ConfidenceRule ==
  (Normalized /\ ShowsConfidence(rendered.branch)) =>
     LET c == ConfidenceField(data.value, rendered.branch)
     IN (c.t = "number" => (c.n >= 0 /\ c.n <= 1000)) =>
          rendered.confidence.percentage = ReferencePercentage(c)

\* the five variants rendered as a report card
ReportVariants == {"HealthReport", "MedicalAnalysis", "LegacyMedicalReport",
                   "ImageAnalysis", "GenericAssessment"}

\* C16: every report rendered as a variant other than PlainText or
\* Malformed shows a non-empty summary text.
C16_SummaryNonEmpty ==
  (Normalized /\ Variant(rendered.branch) \notin {"PlainText", "Malformed"}) =>
     rendered.summaryText # ""

\* C17: every report rendered as one of the five report variants shows a
\* non-empty disclaimer, the default one when the payload carries none.
C17_DisclaimerPresent ==
  (Normalized /\ Variant(rendered.branch) \in ReportVariants) =>
     /\ rendered.disclaimer # ""
     /\ FalsyText(data.value.disclaimer) => rendered.disclaimer = DefaultDisclaimer

\* the list a chain of a newer and an older field must yield: the newer one
\* when it is there (empty or not), else the older one, else the empty list
NewerWins(newer, older) ==
  IF newer.js = "array" THEN newer.items
  ELSE IF older.js = "array" THEN older.items
  ELSE <<>>

\* C18: nutrition advice is recommendations.food_advice when present, else
\* food_recommendations, else empty; lifestyle advice is
\* recommendations.lifestyle_advice when present, else recommended_actions,
\* else empty; the result is always a list and an empty newer list wins over
\* a non-empty older one.
C18_NewerFieldWins ==
  (Normalized /\ rendered.branch = "generic") =>
     LET r == data.value
         rec == r.recommendations
         newFood == IF rec.js = "object" THEN rec.food_advice ELSE NoList
         newLife == IF rec.js = "object" THEN rec.lifestyle_advice ELSE NoList
     IN /\ rendered.food_advice.js = "array"
        /\ rendered.lifestyle_advice.js = "array"
        /\ rendered.food_advice.items = NewerWins(newFood, r.food_recommendations)
        /\ rendered.lifestyle_advice.items = NewerWins(newLife, r.recommended_actions)

\* C18 witness: an empty recommendations.food_advice beside a non-empty
\* food_recommendations, and both lifestyle fields non-empty
C18_Witness ==
  /\ Normalized /\ rendered.branch = "generic"
  /\ data.value.recommendations.js = "object"
  /\ data.value.recommendations.food_advice = JsList("array", <<>>)
  /\ data.value.food_recommendations = JsList("array", <<"food_recommendations">>)
  /\ data.value.recommendations.lifestyle_advice = JsList("array", <<"lifestyle_advice">>)
  /\ data.value.recommended_actions = JsList("array", <<"recommended_actions">>)
  /\ rendered.food_advice.items = <<>>
  /\ rendered.lifestyle_advice.items = <<"lifestyle_advice">>

\* C19: choosing a reason other than "Other" empties the session's free
\* text, and a submitFeedback call carries free text only when its reason is
\* "Other".
C19_ChooseReasonClearsText ==
  /\ [][\A s \in Sessions :
          (lastOp' = Op("chooseReason", s) /\ reason'[s] # "Other") =>
             otherText'[s] = ""]_vars
  /\ [](\A s \in Sessions : \A i \in 1..Len(inflight[s]) :
          inflight[s][i].reason # "Other" => inflight[s][i].comment = "null")

\* C20: in every unsubmitted state with a rating chosen the rating can still
\* be changed: the rating buttons are on screen, or the reason form with its
\* Cancel button that leads back to them.
C20_CanRerate ==
  \A s \in Sessions :
    (~submitted[s] /\ helpful[s] # "null") =>
       FeedbackItem_view(s) \in {"rating", "reason_form"}

\* the Cancel button's click took effect in this step
FeedbackItem_cancels(s) == lastOp' = Op("cancel", s)

\* C21: cancel() is available in AwaitingReason and in AwaitingSubmit,
\* whichever rating led there; it returns the session to AwaitingRating with
\* no rating, no reason and empty free text, and issues no call.
C21_CancelAvailable ==
  /\ [](\A s \in Sessions :
          (AwaitingReason(s) \/ AwaitingSubmit(s)) => FeedbackItem_cancelEnabled(s))
  /\ [][\A s \in Sessions :
          FeedbackItem_cancels(s) =>
            /\ AwaitingRating(s)'
            /\ reason'[s] = "" /\ otherText'[s] = ""
            /\ ~FeedbackItem_issues(s)]_vars

\* C22: Submitted is terminal. Once `submitted` is true it stays true, the
\* view shows the thanks line with no rating, reason, Cancel or Submit
\* control, and no later step changes the session's rating, reason or free
\* text or issues a call; ReportCard's thumbs stay disabled and its recorded
\* rating stays once given.
C22_SubmittedTerminal ==
  /\ [](\A s \in Sessions :
          /\ submitted[s] =>
               /\ FeedbackItem_view(s) = "thanks"
               /\ ~FeedbackItem_submitEnabled(s)
               /\ ~FeedbackItem_cancelEnabled(s)
          /\ feedbackGiven[s] # "null" => ~ReportCard_thumbsEnabled(s))
  /\ [][\A s \in Sessions :
          /\ submitted[s] =>
               /\ submitted'[s]
               /\ helpful'[s] = helpful[s]
               /\ reason'[s] = reason[s]
               /\ otherText'[s] = otherText[s]
               /\ ~FeedbackItem_issues(s)
          /\ feedbackGiven[s] # "null" => feedbackGiven'[s] = feedbackGiven[s]]_vars

\* C22 witness: a session submitted with rating not helpful and a reason, on
\* which submit() was tried again
C22_Witness ==
  \E s \in Sessions :
    /\ submitted[s] /\ helpful[s] = "false" /\ reason[s] # ""
    /\ lastOp = Op("submit", s)

\* C23: while a report view's getReportPdf call is in flight its PDF button
\* is disabled and no second call is issued; the button is enabled again
\* exactly when that call has resolved or rejected, and an attempt with no
\* e-mail stored issues no call and leaves the button enabled.
C23_OneExportInFlight ==
  /\ [](\A s \in Sessions :
          /\ Len(pdfCalls[s]) <= 1
          /\ downloading[s] <=> Len(pdfCalls[s]) = 1
          /\ Len(pdfCalls[s]) = 1 => ~ReportCard_downloadEnabled(s)
          /\ (rendered.download /\ pdfCalls[s] = <<>>) => ReportCard_downloadEnabled(s))
  /\ [][\A s \in Sessions :
          /\ downloading[s] => Len(pdfCalls'[s]) <= Len(pdfCalls[s])
          /\ (downloading[s] /\ ~downloading'[s]) =>
               /\ lastOp' \in {Op("pdfResolved", s), Op("pdfRejected", s)}
               /\ pdfCalls'[s] = <<>>
          /\ (lastOp' = Op("download", s) /\ ~downloading[s]
                /\ localStorage.email = "null") =>
               /\ pdfCalls'[s] = pdfCalls[s]
               /\ ~downloading'[s]]_vars

\* C23 witness: a view's export failed and its PDF button is enabled again
\* while an e-mail is stored
C23_Witness ==
  \E s \in Sessions :
    /\ lastOp = Op("pdfRejected", s)
    /\ localStorage.email # "null"
    /\ ReportCard_downloadEnabled(s)

\* C24: the feedback sessions of several rendered reports are independent: a
\* rate, chooseReason, typing, cancel or submit on one session, or the
\* outcome of its call, leaves the rating, reason, free text, loading,
\* submitted state and calls in flight of every other session unchanged
\* (ReportCard's recorded rating likewise).
C24_SessionsIndependent ==
  [][\A s \in Sessions : \A t \in Sessions \ {s} :
       lastOp'.s = s =>
         /\ FeedbackItem_unchanged(t)
         /\ feedbackGiven'[t] = feedbackGiven[t]
         /\ rcInflight'[t] = rcInflight[t]]_vars

\* C24 witness: one session is submitted while another, having acted last,
\* sits in the reason form with a reason chosen
C24_Witness ==
  \E s \in Sessions : \E t \in Sessions \ {s} :
    /\ submitted[t] /\ helpful[t] = "true"
    /\ ~submitted[s] /\ helpful[s] = "false" /\ reason[s] # ""
    /\ lastOp = Op("chooseReason", s)

\* this step sends a query
Chat_sends == Chat_pending'.query > Chat_pending.query

\* C25: while the conversation displays an assistant report of severity
\* EMERGENCY the chat is blocked: no query is sent from the input area.
C25_EmergencyBlocksChat ==
  [][Chat_displays(AssistantTurn("EMERGENCY")) => ~Chat_sends]_vars

\* h is an initial segment of g
IsPrefix(h, g) ==
  /\ Len(h) <= Len(g)
  /\ \A i \in 1..Len(h) : g[i] = h[i]

\* C26: the history is append-only between clears: every step other than a
\* successful clear keeps the turns already held, in place (the initial
\* history load resolving after a send included), and a failed clear leaves
\* the history unchanged.
C26_HistoryAppendOnly ==
  [][/\ lastOp' # Op("clearResolved", 0) => IsPrefix(Chat_history, Chat_history')
     /\ lastOp' = Op("clearRejected", 0) => Chat_history' = Chat_history]_vars

\* C27: whenever a session is submitted its recorded rating is the rating the
\* successful call carried and is never unset, a cancel() during the flight
\* of that call included.
C27_RecordedRatingIsSent ==
  /\ [](\A s \in Sessions : submitted[s] => helpful[s] # "null")
  /\ [][\A s \in Sessions :
          (submitted'[s] /\ ~submitted[s]) =>
             \E i \in 1..Len(inflight[s]) :
                /\ inflight'[s] = RemoveAt(inflight[s], i)
                /\ helpful'[s] = inflight[s][i].helpful]_vars

\* C28: a decoded payload with both discriminators is dispatched by the
\* first match of the fixed order type health_report, type
\* medical_report_analysis, input_type medical_report, type
\* clarification_questions, input_type medical_image; so
\* clarification_questions with input_type medical_report is drawn as the
\* legacy medical report with its PDF button, and clarification_questions
\* with input_type medical_image as the question list.
C28_DiscriminatorOrder ==
  (Shown /\ data.kind # "text" /\ data.value.js = "object") =>
    LET type == data.value.type
        input_type == data.value.input_type
        v == Variant(rendered.branch)
    IN /\ IF type = "health_report" THEN v = "HealthReport"
          ELSE IF type = "medical_report_analysis" THEN v = "MedicalAnalysis"
          ELSE IF input_type = "medical_report" THEN v = "LegacyMedicalReport"
          ELSE IF type = "clarification_questions" THEN v = "ClarificationQuestions"
          ELSE IF input_type = "medical_image" THEN v = "ImageAnalysis"
          ELSE TRUE
       /\ (type = "clarification_questions" /\ input_type = "medical_report") =>
            /\ v = "LegacyMedicalReport"
            /\ rendered.layout = "report_card" /\ rendered.download
       /\ (type = "clarification_questions" /\ input_type = "medical_image") =>
            /\ rendered.layout = "question_list" /\ ~rendered.download

\* C28 witness: clarification_questions with input_type medical_report was
\* drawn as the legacy medical report with the PDF button
C28_Witness ==
  /\ Shown /\ data.kind # "text"
  /\ data.value.type = "clarification_questions"
  /\ data.value.input_type = "medical_report"
  /\ rendered.branch = "medical_report" /\ rendered.download

\* C29: after any sequence of owner logins, ordinary logins and logouts the
\* owner route lets the dashboard render only if a token is stored and the
\* most recent successful login, whose token that is, was an owner login.
C29_OwnerRouteNeedsOwnerLogin ==
  OwnerRoute(localStorage) => localStorage.token = "OwnerLogin"

\* no two neighbouring turns of the history have the same role
Alternating(h) == \A i \in 1..(Len(h) - 1) : h[i].role # h[i + 1].role

\* C30: an accepted send appends one user turn and its query's outcome one
\* assistant turn (the response, or the error report of severity UNKNOWN),
\* after which loading is false; while loading no send is accepted, so at
\* most one query is in flight and user and assistant turns alternate in the
\* history.
C30_SendAppendsInOrder ==
  /\ [](/\ Chat_pending.query <= 1
        /\ Chat_loading <=> Chat_pending.query = 1
        /\ Alternating(Chat_history))
  /\ [][/\ Chat_sends =>
             /\ ~Chat_loading /\ Chat_loading'
             /\ \E c \in InputTexts \cup {"Voice Message"} :
                   Chat_history' = Append(Chat_history, UserTurn(c))
        /\ lastOp' = Op("queryResolved", 0) =>
             /\ ~Chat_loading'
             /\ \E severity \in ResponseSeverities :
                   Chat_history' = Append(Chat_history, AssistantTurn(severity))
        /\ lastOp' = Op("queryRejected", 0) =>
             /\ ~Chat_loading'
             /\ Chat_history' = Append(Chat_history, AssistantTurn("UNKNOWN"))
        /\ (Chat_loading /\ lastOp' = Op("send", 0)) => UNCHANGED chatVars]_vars

====
